---- MODULE Spec2Model ----
(***************************************************************************)
(* A state-machine model of the literature-acquisition helper:             *)
(*   src/Merge_ris+cov.py  (Streamlit dashboard, pipelines 1-3)            *)
(*   src/autofill.py       (stand-alone Covidence upload, Chrome)          *)
(*   src/openAlex.py       (stand-alone OpenAlex -> RIS example)           *)
(* The program is single-threaded: one user action (or one direct call of  *)
(* a helper) runs at a time.  `op` names the operation a behaviour runs,   *)
(* `pc` its position.  External calls (HTTP, Selenium, the file system)    *)
(* answer nondeterministically.                                            *)
(*                                                                         *)
(* Representation: an optional value (Python None or a value) is a         *)
(* sequence of length <= 1; text is a sequence of character runs.          *)
(***************************************************************************)
EXTENDS Integers, Sequences, FiniteSets, TLC

VARIABLES
    op,             \* the operation this behaviour runs
    pc,             \* position inside the operation
    ui,             \* set of messages shown to the user (st.error / st.warning / ...)
    \* ---- fetch_via_scihub
    scihubBound,    \* whether the name scihub_download resolves at line 89
    doi,            \* the DOI handed to the fetch
    mirrors,        \* the `mirrors` argument
    mi,             \* index of the next mirror of the for loop
    last_exc,       \* Option: the exception kept at line 92
    attempts,       \* history: one record per executed loop body
    fetchResult,    \* how fetch_via_scihub ended
    \* ---- Pipeline 1
    itm,            \* Option: the Crossref item of line 444 / line 477
    score,          \* best_match score (title mode)
    linkIdx,        \* index of the next link of try_publisher_pdf's loop
    requested,      \* history: indices of the publisher links requested
    publisherPdf,   \* history: Option, the bytes try_publisher_pdf returned
    pdf,            \* Option: the local `pdf` of main()
    offered,        \* Option: the bytes behind the "Save PDF" button
    \* ---- download_all_ris_files / download_ris_for_article
    article_titles, \* the input list of titles
    folder,         \* the output folder: file name -> file content
    ti,             \* the loop index i of enumerate(article_titles, start=1)
    downloaded_files, \* the list built at lines 192-197
    processed,      \* history: one record per call of download_ris_for_article
    risResult,      \* how download_all_ris_files ended
    \* ---- the browser functions (upload, both copies; extraction)
    run,            \* the function running: "merge", "autofill" (upload) or "extract"
    created,        \* run -> whether its WebDriver has been created
    quits,          \* run -> number of driver.quit() calls
    result,         \* run -> how the function ended
    browser,        \* upload copy -> the browser calls made, in order
    listing,        \* what os.listdir(ris_folder_path) answers
    fault,          \* the browser call that raises during the upload, if any
    noNotif,        \* files after whose import no 'notifications' element shows
    ris_files,      \* the list built at lines 234-236
    fi,             \* index of the next file of `for ris_file in ris_files`
    \* ---- extract_and_download_pdfs_from_covidence
    exActed,        \* whether any browser call has been made by the extraction
    page,           \* the 'extracted' page: batches not yet revealed, lasting fault
    n_studies,      \* len(study_elements)
    si,             \* the loop index i of enumerate(study_elements, start=1)
    downloaded_pdfs, \* file name -> PDF bytes
    failed_papers,  \* list of file names
    \* ---- main(), Pipeline 3
    downloads,      \* the downloads triggered (trigger_download), in order
    \* ---- best_match called directly
    crossref_items, \* the `items` argument
    returned_match, \* Option: the pair best_match returned
    \* ---- create_ris_entry called directly
    entry_args,     \* the arguments of the call
    returned_entry, \* copy -> Option: what that copy returned
    \* ---- reconstruct_abstract called directly
    words,          \* the words of an abstract, in order
    abstract_inverted_index, \* the index handed to reconstruct_abstract
    returned_abstract \* copy -> Option: what that copy returned

None == <<>>
Some(x) == <<x>>
IsNone(o) == o = <<>>
Val(o) == o[1]

(***************************************************************************)
(* Program constants.                                                      *)
(***************************************************************************)
SIM_THRESHOLD == 75

SCI_HUB_MIRRORS ==
    << "https://sci-hub.se", "https://sci-hub.st", "https://sci-hub.ru",
       "https://sci-hub.ee", "https://sci-hub.ren" >>

(***************************************************************************)
(* Bounds of the model.                                                    *)
(***************************************************************************)
MaxItems == 2       \* Crossref items in one answer
MaxLinks == 2       \* publisher links of one item
MaxTitles == 2      \* article titles of one run of Pipeline 2
MaxFolder == 2      \* files in the folder handed to the upload
MaxBatches == 2     \* batches of studies behind the global 'Load more' button
MaxStudies == 2     \* study elements on the 'extracted' page
MaxWords == 3       \* words of an abstract
MaxAuthors == 2     \* authors handed to create_ris_entry

\* Byte strings a download can yield; "" is a zero-length body.
Bytes == {"", "%PDF-1", "%PDF-2"}
Truthy(b) == b /= ""

\* Sequences over S of length 0..n.
RECURSIVE SeqsUpTo(_, _)
SeqsUpTo(S, n) ==
    IF n = 0 THEN {<<>>}
    ELSE LET shorter == SeqsUpTo(S, n - 1)
         IN  shorter \cup {Append(s, x) : s \in {t \in shorter : Len(t) = n - 1}, x \in S}

\* every order of the elements of a set
RECURSIVE Orders(_)
Orders(S) ==
    IF S = {} THEN {<<>>}
    ELSE UNION {{<<x>> \o t : t \in Orders(S \ {x})} : x \in S}

(***************************************************************************)
(* fetch_via_scihub(doi, mirrors)            Merge_ris+cov.py lines 83-93  *)
(***************************************************************************)
\* Argument lists of the direct calls: every contiguous slice of the default list.
MirrorLists ==
    {<<>>} \cup {SubSeq(SCI_HUB_MIRRORS, a, b) : a \in 1..Len(SCI_HUB_MIRRORS),
                                                 b \in 1..Len(SCI_HUB_MIRRORS)}

\* Exceptions the body of the try (lines 87-90) can raise.  NameError is what
\* line 89 raises when scihub_download is not bound in the module.
DownloadErrors == {"ConnectionError", "FileNotFoundError"}

\* Outcomes of one loop body for the mirror: the bytes read, or an exception.
MirrorOutcomes ==
    IF scihubBound
    THEN [ok : {TRUE}, bytes : Bytes, exc : {"-"}]
         \cup [ok : {FALSE}, bytes : {""}, exc : DownloadErrors]
    ELSE [ok : {FALSE}, bytes : {""}, exc : {"NameError"}]

\* line 84: state at entry of fetch_via_scihub(d, ms)
EnterFetch(d, ms) ==
    /\ doi' = d
    /\ mirrors' = ms
    /\ mi' = 1
    /\ last_exc' = None
    /\ attempts' = <<>>
    /\ fetchResult' = [kind |-> "running"]

fetchVars == <<scihubBound, doi, mirrors, mi, last_exc, attempts, fetchResult>>
p1Vars == <<itm, score, linkIdx, requested, publisherPdf, pdf, offered>>
\* what the operations of Pipeline 1 and fetch_via_scihub never touch
risVars == <<article_titles, folder, ti, downloaded_files, processed, risResult>>
drvVars == <<run, created, quits, result>>
upVars == <<browser, listing, fault, noNotif, ris_files, fi>>
exVars == <<exActed, page, n_studies, si, downloaded_pdfs, failed_papers>>
raVars == <<words, abstract_inverted_index, returned_abstract>>
bmVars == <<crossref_items, returned_match>>
reVars == <<entry_args, returned_entry>>
outsideP1 == <<risVars, drvVars, upVars, exVars, raVars, bmVars, reVars, downloads>>
outsideRis == <<fetchVars, p1Vars, drvVars, upVars, exVars, raVars, bmVars, reVars, downloads>>
outsideUp == <<fetchVars, p1Vars, article_titles, ti, downloaded_files, processed,
               risResult, exVars, raVars, bmVars, reVars, downloads>>
outsideP3 == <<fetchVars, p1Vars, risVars, upVars, raVars, bmVars, reVars>>
outsideEx == <<outsideP3, downloads>>
outsideBm == <<fetchVars, p1Vars, risVars, drvVars, upVars, exVars, raVars, reVars, downloads>>
outsideRe == <<fetchVars, p1Vars, risVars, drvVars, upVars, exVars, raVars, bmVars, downloads>>
outsideRa == <<fetchVars, p1Vars, risVars, drvVars, upVars, exVars, bmVars, reVars, downloads>>

\* MirrorAttempt with line 92 keeping the first exception instead of the last
MirrorAttempt_keepsFirstError ==
    /\ pc = "fetch"
    /\ mi <= Len(mirrors)
    /\ \E out \in MirrorOutcomes :
         LET mirror == mirrors[mi] IN
         /\ attempts' = Append(attempts, [mirror |-> mirror, out |-> out])
         /\ IF out.ok
            THEN /\ fetchResult' = [kind |-> "returned", bytes |-> out.bytes,
                                    mirror |-> mirror]
                 /\ pc' = "fetch_exit"
                 /\ UNCHANGED <<mi, last_exc>>
            ELSE /\ last_exc' = IF IsNone(last_exc)
                                THEN Some([type |-> out.exc, mirror |-> mirror])
                                ELSE last_exc
                 /\ mi' = mi + 1
                 /\ UNCHANGED <<fetchResult, pc>>
    /\ UNCHANGED <<op, ui, scihubBound, doi, mirrors, p1Vars, outsideP1>>

\* lines 85-92: one iteration of `for mirror in mirrors`
MirrorAttempt ==
    /\ pc = "fetch"
    /\ mi <= Len(mirrors)
    /\ \E out \in MirrorOutcomes :
         LET mirror == mirrors[mi] IN
         /\ attempts' = Append(attempts, [mirror |-> mirror, out |-> out])
         /\ IF out.ok
            THEN \* line 90: return out_fp.read_bytes()
                 /\ fetchResult' = [kind |-> "returned", bytes |-> out.bytes,
                                    mirror |-> mirror]
                 /\ pc' = "fetch_exit"
                 /\ UNCHANGED <<mi, last_exc>>
            ELSE \* lines 91-92: except Exception as exc: last_exc = exc
                 /\ last_exc' = Some([type |-> out.exc, mirror |-> mirror])
                 /\ mi' = mi + 1
                 /\ UNCHANGED <<fetchResult, pc>>
    /\ UNCHANGED <<op, ui, scihubBound, doi, mirrors, p1Vars, outsideP1>>

\* line 93: raise RuntimeError(f"All mirrors failed; last error: {last_exc}")
AllMirrorsFailed ==
    /\ pc = "fetch"
    /\ mi > Len(mirrors)
    /\ fetchResult' = [kind |-> "raised", type |-> "RuntimeError", last |-> last_exc]
    /\ pc' = "fetch_exit"
    /\ UNCHANGED <<op, ui, scihubBound, doi, mirrors, mi, last_exc, attempts, p1Vars,
                   outsideP1>>

\* A direct call fetch_via_scihub(doi, mirrors) has nothing after its exit.

(***************************************************************************)
(* Pipeline 1: One-Click PDF Downloader      Merge_ris+cov.py lines 433-500*)
(***************************************************************************)
DOIs == {"10.1/a", "10.1/b"}

\* A Crossref link entry as try_publisher_pdf reads it: its declared content-type.
LinkTypes == {"application/pdf", "text/html"}

\* A Crossref item as the search reads it: its DOI and sim, the value
\* fuzz.partial_ratio(query.lower(), title.lower()) has for its title.  The
\* "link" list of the item is drawn when try_publisher_pdf first reads it.
Sims == {0, 74, 75, 100}
Items == [DOI : DOIs, sim : Sims]
LinkLists == SeqsUpTo(LinkTypes, MaxLinks)
WithLinks(item, links) == [DOI |-> item.DOI, sim |-> item.sim, link |-> links]

\* The content-type header of an HTTP answer, as runs: the media type first.
Headers == { <<>>, <<"text/html">>, <<"application/pdf">>,
             <<"application/pdf", ";charset=binary">> }
StartsWith(h, prefix) == Len(h) >= 1 /\ h[1] = prefix

\* BestFrom replacing the best item when the score is equal, not only greater
RECURSIVE BestFrom_latestOnTies(_, _, _, _)
BestFrom_latestOnTies(items, k, best_item, best_score) ==
    IF k > Len(items) THEN <<best_item, best_score>>
    ELSE IF items[k].sim >= best_score
         THEN BestFrom_latestOnTies(items, k + 1, Some(items[k]), items[k].sim)
         ELSE BestFrom_latestOnTies(items, k + 1, best_item, best_score)

\* lines 65-72: best_match(items, query) -> <<best_item, best_score>>
RECURSIVE BestFrom(_, _, _, _)
BestFrom(items, k, best_item, best_score) ==
    IF k > Len(items) THEN <<best_item, best_score>>
    ELSE IF items[k].sim > best_score
         THEN BestFrom(items, k + 1, Some(items[k]), items[k].sim)
         ELSE BestFrom(items, k + 1, best_item, best_score)

best_match(items) == BestFrom(items, 1, None, 0)

\* a direct call best_match(items, query)
BestMatchCall ==
    /\ op = "best_match"
    /\ pc = "bm_call"
    /\ returned_match' = Some(best_match(crossref_items))
    /\ pc' = "bm_done"
    /\ UNCHANGED <<op, ui, crossref_items, outsideBm>>

\* lines 454-455 / 486-487: entering `pdf = try_publisher_pdf(itm)`
EnterPublisher(item, sc) ==
    /\ itm' = Some(item)
    /\ score' = sc
    /\ linkIdx' = 1
    /\ pc' = "p1_publisher"
    /\ UNCHANGED <<ui, requested, publisherPdf, pdf, offered, fetchVars>>

\* lines 437-452: "Title / keywords" mode up to the resolved item
P1TitleSearch ==
    /\ op = "p1_title"
    /\ pc = "p1_start"
    /\ \/ \* line 439: button not pressed or blank query
          /\ pc' = "p1_done"
          /\ UNCHANGED <<ui, p1Vars, fetchVars>>
       \/ \* line 441: crossref_by_title raises (raise_for_status, timeout);
          \* there is no try around the call
          /\ pc' = "uncaught"
          /\ UNCHANGED <<ui, p1Vars, fetchVars>>
       \/ \E items \in SeqsUpTo(Items, MaxItems) :
            /\ IF items = <<>>
               THEN \* lines 442-443
                    /\ ui' = ui \cup {"error: No Crossref results."}
                    /\ pc' = "p1_done"
                    /\ UNCHANGED <<itm, score, linkIdx, requested, publisherPdf, pdf,
                                    offered, fetchVars>>
               ELSE
                 LET bm == best_match(items) IN
                 IF bm[2] < SIM_THRESHOLD
                 THEN \* lines 446-448
                      /\ ui' = ui \cup {"warning: Best match similarity too low"}
                      /\ itm' = bm[1]
                      /\ score' = bm[2]
                      /\ pc' = "p1_done"
                      /\ UNCHANGED <<linkIdx, requested, publisherPdf, pdf, offered,
                                      fetchVars>>
                 ELSE \E links \in LinkLists :
                          EnterPublisher(WithLinks(Val(bm[1]), links), bm[2])
    /\ UNCHANGED <<op, outsideP1>>

\* lines 470-487: "DOI" mode up to the resolved item
P1DoiLookup ==
    /\ op = "p1_doi"
    /\ pc = "p1_start"
    /\ \/ \* line 473: button not pressed or blank input
          /\ pc' = "p1_done"
          /\ UNCHANGED <<ui, p1Vars, fetchVars>>
       \/ \* lines 476-480: crossref_by_doi raises; caught, item = None
          /\ ui' = ui \cup {"error: Crossref lookup failed"}
          /\ pc' = "p1_done"
          /\ UNCHANGED <<p1Vars, fetchVars>>
       \/ \E item \in {i \in Items : i.sim = 100}, links \in LinkLists :
            EnterPublisher(WithLinks(item, links), 100)
    /\ UNCHANGED <<op, outsideP1>>

\* lines 75-81: one iteration of try_publisher_pdf's loop, or its `return None`
\* followed by the call of fetch_via_scihub (lines 456-458 / 488-490)
P1PublisherLink ==
    /\ pc = "p1_publisher"
    /\ LET links == Val(itm).link IN
       IF linkIdx > Len(links)
       THEN \* line 81 return None; line 456 `if pdf is None`; line 458 call
            /\ pdf' = None
            /\ EnterFetch(Val(itm).DOI, SCI_HUB_MIRRORS)
            /\ pc' = "fetch"
            /\ UNCHANGED <<ui, itm, score, linkIdx, requested, publisherPdf, offered,
                            scihubBound>>
       ELSE IF links[linkIdx] /= "application/pdf"
       THEN \* line 77: not a PDF link, next link
            /\ linkIdx' = linkIdx + 1
            /\ UNCHANGED <<pc, ui, itm, score, requested, publisherPdf, pdf, offered,
                            fetchVars>>
       ELSE \* line 78: requests.get(link["URL"], timeout=20)
            /\ requested' = Append(requested, linkIdx)
            /\ \/ \* the request raises; no try in try_publisher_pdf or at its call
                  /\ pc' = "uncaught"
                  /\ UNCHANGED <<linkIdx, pdf, publisherPdf>>
               \/ \E ok \in BOOLEAN, h \in Headers, content \in Bytes :
                    IF ok /\ StartsWith(h, "application/pdf")
                    THEN \* line 80: return r.content
                         /\ pdf' = Some(content)
                         /\ publisherPdf' = Some(content)
                         /\ pc' = "p1_offer"
                         /\ UNCHANGED linkIdx
                    ELSE /\ linkIdx' = linkIdx + 1
                         /\ UNCHANGED <<pc, pdf, publisherPdf>>
            /\ UNCHANGED <<ui, itm, score, offered, fetchVars>>
    /\ UNCHANGED <<op, outsideP1>>

\* lines 457-461 / 489-493: the try around fetch_via_scihub at its call site
P1MirrorCallSite ==
    /\ op \in {"p1_title", "p1_doi"}
    /\ pc = "fetch_exit"
    /\ IF fetchResult.kind = "returned"
       THEN /\ pdf' = Some(fetchResult.bytes)
            /\ UNCHANGED ui
       ELSE /\ ui' = ui \cup {IF op = "p1_title" THEN "error: Crawling failed"
                                                 ELSE "error: Searching failed"}
            /\ pdf' = None
    /\ pc' = "p1_offer"
    /\ UNCHANGED <<op, itm, score, linkIdx, requested, publisherPdf,
                   offered, fetchVars, outsideP1>>

\* lines 463-468 / 495-500: `if pdf:` ... st.download_button("Save PDF", pdf, ...)
P1Offer ==
    /\ pc = "p1_offer"
    /\ IF ~IsNone(pdf) /\ Truthy(Val(pdf))
       THEN /\ ui' = ui \cup {"success: PDF ready!"}
            /\ offered' = pdf
       ELSE UNCHANGED <<ui, offered>>
    /\ pc' = "p1_done"
    /\ UNCHANGED <<op, itm, score, linkIdx, requested, publisherPdf,
                   pdf, fetchVars, outsideP1>>

(***************************************************************************)
(* Text helpers.                                                           *)
(***************************************************************************)
\* sep.join(parts): the parts with one sep between neighbours
RECURSIVE Join(_, _)
Join(parts, sep) ==
    IF Len(parts) = 0 THEN <<>>
    ELSE IF Len(parts) = 1 THEN <<parts[1]>>
    ELSE <<parts[1], sep>> \o Join(Tail(parts), sep)

RECURSIVE Concat(_)
Concat(seqs) == IF seqs = <<>> THEN <<>> ELSE Head(seqs) \o Concat(Tail(seqs))

RECURSIVE MaxOf(_)
MaxOf(ns) ==
    IF Len(ns) = 1 THEN ns[1]
    ELSE LET m == MaxOf(Tail(ns)) IN IF ns[1] > m THEN ns[1] ELSE m

(***************************************************************************)
(* reconstruct_abstract(inverted_index)     Merge_ris+cov.py lines 111-122 *)
(* The dict is a sequence of <<word, indices>> entries in iteration order; *)
(* positions are 0-based as in Python.                                     *)
(***************************************************************************)
\* PlaceWord storing the word at its first position only
PlaceWord_firstOnly(abstract_words, word, indices) ==
    IF indices = <<>> THEN abstract_words
    ELSE [abstract_words EXCEPT ![Head(indices) + 1] = word]

\* lines 120-121: for index in indices: abstract_words[index] = word
RECURSIVE PlaceWord(_, _, _)
PlaceWord(abstract_words, word, indices) ==
    IF indices = <<>> THEN abstract_words
    ELSE PlaceWord([abstract_words EXCEPT ![Head(indices) + 1] = word], word,
                   Tail(indices))

\* lines 119-121: for word, indices in inverted_index.items()
RECURSIVE PlaceAll(_, _)
PlaceAll(abstract_words, entries) ==
    IF entries = <<>> THEN abstract_words
    ELSE PlaceAll(PlaceWord(abstract_words, Head(entries)[1], Head(entries)[2]),
                  Tail(entries))

reconstruct_abstract(inverted_index) ==
    LET positions == Concat([k \in 1..Len(inverted_index) |-> inverted_index[k][2]])
    IN  IF positions = <<>> THEN <<>>
        ELSE LET n_words == MaxOf(positions) + 1
                 blank == [k \in 1..n_words |-> ""]
             IN  Join(PlaceAll(blank, inverted_index), " ")

(***************************************************************************)
(* create_ris_entry(title, authors, year, doi, abstract)                   *)
(*   Merge_ris+cov.py lines 124-137, openAlex.py lines 24-48               *)
(* A text is a sequence of pieces; the piece "\n" is a line break.  year   *)
(* and doi are Options (None: a falsy value), the year an integer,         *)
(* abstract is a text, falsy when empty.                                   *)
(***************************************************************************)
\* f"{tag}{value}"
TagLine(tag, value) == <<tag>> \o value

\* "\n".join(ris_lines)
JoinLines(ris_lines) == Concat(Join(ris_lines, <<"\n">>))

\* Merge_ris+cov.py lines 124-137
create_ris_entry(title, authors, year, doi_, abstract) ==
    LET ris_lines ==
            << <<"TY  - JOUR">>, TagLine("TI  - ", title) >>
            \o [k \in 1..Len(authors) |-> TagLine("AU  - ", authors[k])]
            \o (IF ~IsNone(year) THEN <<TagLine("PY  - ", <<ToString(Val(year))>>)>>
                ELSE <<>>)
            \o (IF ~IsNone(doi_) THEN <<TagLine("DO  - ", Val(doi_))>> ELSE <<>>)
            \o (IF abstract /= <<>> THEN <<TagLine("AB  - ", abstract)>> ELSE <<>>)
            \o << <<"ER  -">> >>
    IN  JoinLines(ris_lines)

\* openAlex.py lines 24-48
create_ris_entry_openAlex(title, authors, year, doi_, abstract) ==
    LET ris_lines ==
            << <<"TY  - JOUR">>, TagLine("TI  - ", title) >>
            \o [k \in 1..Len(authors) |-> TagLine("AU  - ", authors[k])]
            \o (IF ~IsNone(year) THEN <<TagLine("PY  - ", <<ToString(Val(year))>>)>>
                ELSE <<>>)
            \o (IF ~IsNone(doi_) THEN <<TagLine("DO  - ", Val(doi_))>> ELSE <<>>)
            \o (IF abstract /= <<>> THEN <<TagLine("AB  - ", abstract)>> ELSE <<>>)
            \o << <<"ER  -">> >>
    IN  JoinLines(ris_lines)

\* values handed to a direct call of create_ris_entry
EntryTitles == { <<>>, <<"Methane">>, <<"Methane", "\n", "Ozone">> }
EntryAuthors == { <<"Ann">>, <<"Bo">> }
EntryArgs ==
    [ title : EntryTitles,
      authors : SeqsUpTo(EntryAuthors, MaxAuthors),
      year : {None, Some(2020)},
      doi : {None, Some(<<"10.1/a">>)},
      abstract : { <<>>, <<"methane", " ", "gas">> } ]

EntryCopies == {"merge", "openAlex"}

\* a direct call create_ris_entry(title, authors, year, doi, abstract) of one copy
CreateEntry(c) ==
    /\ op = "ris_entry"
    /\ pc = "re_call"
    /\ IsNone(returned_entry[c])
    /\ LET a == entry_args IN
       returned_entry' = [returned_entry EXCEPT ![c] =
           Some(IF c = "merge"
                THEN create_ris_entry(a.title, a.authors, a.year, a.doi, a.abstract)
                ELSE create_ris_entry_openAlex(a.title, a.authors, a.year, a.doi,
                                               a.abstract))]
    /\ pc' = IF \A d \in EntryCopies \ {c} : ~IsNone(returned_entry[d])
             THEN "re_done" ELSE pc
    /\ UNCHANGED <<op, ui, entry_args, outsideRe>>

(***************************************************************************)
(* download_ris_for_article / download_all_ris_files       lines 139-198   *)
(***************************************************************************)
Titles == {"Methane", "Ozone"}

\* f"{file_index}.ris" as characters
RisName(i) == <<ToString(i), ".", "r", "i", "s">>

\* first results OpenAlex may answer with (data["results"][0])
OpenAlexResults ==
    { [display_name |-> <<"Paper A">>, doi |-> Some(<<"https://doi.org/10.1/a">>),
       publication_year |-> Some(2020), authorships |-> <<Some(<<"Ann">>), None>>,
       abstract_inverted_index |-> Some(<< <<"gas", <<1>> >>, <<"methane", <<0, 2>> >> >>)],
      [display_name |-> <<"Paper B">>, doi |-> None,
       publication_year |-> None, authorships |-> <<>>,
       abstract_inverted_index |-> None] }

\* lines 160-165: names of the authorships that have one
RECURSIVE AuthorNames(_)
AuthorNames(authorships) ==
    IF authorships = <<>> THEN <<>>
    ELSE (IF IsNone(Head(authorships)) THEN <<>> ELSE <<Val(Head(authorships))>>)
         \o AuthorNames(Tail(authorships))

\* lines 155-172: the RIS text of a first result
RisContent(first_result) ==
    LET abstract == IF ~IsNone(first_result.abstract_inverted_index)
                       /\ Val(first_result.abstract_inverted_index) /= <<>>
                    THEN reconstruct_abstract(Val(first_result.abstract_inverted_index))
                    ELSE <<>>
    IN  create_ris_entry(first_result.display_name,
                         AuthorNames(first_result.authorships),
                         first_result.publication_year, first_result.doi, abstract)

\* the folder after writing content to name
WriteFile(dir, name, content) ==
    [n \in DOMAIN dir \cup {name} |-> IF n = name THEN content ELSE dir[n]]

\* line 183: os.path.exists(filename) and os.path.getsize(filename) > 0
ExistsNonEmpty(dir, name) == name \in DOMAIN dir /\ Len(dir[name]) > 0

EmptyFolder == [n \in {} |-> <<>>]

\* lines 189-192: remove and recreate the folder, start the list
RisStart ==
    /\ pc = "ris_start"
    /\ folder' = EmptyFolder
    /\ downloaded_files' = <<>>
    /\ ti' = 1
    /\ pc' = "ris_loop"
    /\ UNCHANGED <<op, ui, article_titles, processed, risResult, outsideRis>>

\* the record kept of one call download_ris_for_article(title, folder, i)
Call(i, title, outcome, ret) ==
    [index |-> i, title |-> title, outcome |-> outcome, ret |-> ret]

\* lines 193-197 with lines 139-186: one iteration of the loop
RisArticle ==
    /\ pc = "ris_loop"
    /\ ti <= Len(article_titles)
    /\ LET title == article_titles[ti]
           filename == RisName(ti)
           returnsNone(outcome, msg, dir) ==
               /\ ui' = ui \cup {msg}
               /\ folder' = dir
               /\ processed' = Append(processed, Call(ti, title, outcome, None))
               /\ ti' = ti + 1
               /\ UNCHANGED <<pc, downloaded_files, risResult>>
       IN
       \/ \* lines 143-148: the request raises RequestException
          returnsNone("request_error", "error: OpenAlex search", folder)
       \/ \* lines 151-153: no "results" key or an empty list
          returnsNone("no_results", "warning: No results found", folder)
       \/ \* line 150 / 155-169: the body is not JSON or not of the expected
          \* shape; response.json() / .get raise outside any try
          /\ processed' = Append(processed, Call(ti, title, "raised", None))
          /\ risResult' = [kind |-> "raised", at |-> ti]
          /\ pc' = "ris_exit"
          /\ UNCHANGED <<ui, folder, ti, downloaded_files>>
       \/ \E first_result \in OpenAlexResults :
            LET ris_content == RisContent(first_result) IN
            \/ \* line 176: open() raises; nothing is written
               returnsNone("open_error", "error: saving RIS file", folder)
            \/ \* line 177: the file is created, then write() raises
               returnsNone("write_error", "error: saving RIS file",
                           WriteFile(folder, filename, <<>>))
            \/ \* lines 176-178 succeed; lines 183-186 verify the file
               LET dir == WriteFile(folder, filename, ris_content)
                   ris_file == IF ExistsNonEmpty(dir, filename)
                               THEN Some(filename) ELSE None
               IN  /\ folder' = dir
                   /\ ui' = ui \cup {"success: RIS file saved"}
                   /\ processed' = Append(processed, Call(ti, title, "written", ris_file))
                   /\ downloaded_files' =
                          IF ~IsNone(ris_file)
                          THEN Append(downloaded_files, Val(ris_file))
                          ELSE downloaded_files
                   /\ ti' = ti + 1
                   /\ UNCHANGED <<pc, risResult>>
    /\ UNCHANGED <<op, article_titles, outsideRis>>

\* line 198: return downloaded_files
RisFinish ==
    /\ pc = "ris_loop"
    /\ ti > Len(article_titles)
    /\ risResult' = [kind |-> "returned", value |-> downloaded_files]
    /\ pc' = "ris_exit"
    /\ UNCHANGED <<op, ui, article_titles, folder, ti, downloaded_files, processed,
                   outsideRis>>

(***************************************************************************)
(* upload_ris_files_to_covidence                                           *)
(*   "merge":    Merge_ris+cov.py lines 200-256 (Firefox, Streamlit)       *)
(*   "autofill": autofill.py lines 10-74        (Chrome, print)            *)
(* To compare the copies, a behaviour of op "upload" runs the Streamlit    *)
(* copy and then the autofill.py copy on the same folder, with Covidence   *)
(* answering both alike (listing, fault, noNotif).                         *)
(***************************************************************************)
\* str.lower() on one character, and on a text of characters
Lower(ch) ==
    CASE ch = "R" -> "r" [] ch = "I" -> "i" [] ch = "S" -> "s"
      [] ch = "T" -> "t" [] ch = "X" -> "x" [] OTHER -> ch
LowerText(t) == [k \in 1..Len(t) |-> Lower(t[k])]

\* str.endswith(suffix)
EndsWith(t, suffix) ==
    /\ Len(t) >= Len(suffix)
    /\ SubSeq(t, Len(t) - Len(suffix) + 1, Len(t)) = suffix

\* MergeRisFiles comparing the suffix without lower()
MergeRisFiles_caseSensitive(names) ==
    LET keep(f) == EndsWith(f, <<".", "r", "i", "s">>)
    IN  SelectSeq(names, keep)

\* Merge_ris+cov.py lines 234-236: [f for f in os.listdir(..) if f.lower().endswith('.ris')]
MergeRisFiles(names) ==
    LET keep(f) == EndsWith(LowerText(f), <<".", "r", "i", "s">>)
    IN  SelectSeq(names, keep)

\* autofill.py lines 39-43
AutofillRisFiles(names) ==
    LET keep(f) == EndsWith(LowerText(f), <<".", "r", "i", "s">>)
    IN  SelectSeq(names, keep)

\* a browser call: what is called, and the file handed to it (if any)
B(call) == [call |-> call, arg |-> <<>>]
BFile(call, f) == [call |-> call, arg |-> f]

\* Merge_ris+cov.py lines 221-231: sign in and open the review
MergeLoginCalls ==
    << B("get sign_in"), B("maximize_window"),
       B("find session_email"), B("send_keys email"),
       B("find session[password]"), B("send_keys password"),
       B("find sign_in submit"), B("click sign_in submit"),
       B("get review_url") >>

\* autofill.py lines 19-35
AutofillLoginCalls ==
    << B("get sign_in"), B("maximize_window"),
       B("find session_email"), B("send_keys email"),
       B("find session[password]"), B("send_keys password"),
       B("find sign_in submit"), B("click sign_in submit"),
       B("get review_url") >>

\* Merge_ris+cov.py lines 240-247: the import form for one file
MergeUploadCalls(ris_file) ==
    << B("get citation_imports/new"),
       B("find citation_import[study_category]"), B("select Screen"),
       B("find citation_import_file"), BFile("send_keys file", ris_file),
       B("find upload-citations"), B("click upload-citations") >>

\* autofill.py lines 49-61
AutofillUploadCalls(ris_file) ==
    << B("get citation_imports/new"),
       B("find citation_import[study_category]"), B("select Screen"),
       B("find citation_import_file"), BFile("send_keys file", ris_file),
       B("find upload-citations"), B("click upload-citations") >>

\* lines 250 (Merge) / 66 (autofill): looked up inside try/except Exception
NotificationCall == B("find notifications")

\* line 256 (Merge) / 74 (autofill): finally: driver.quit()
QuitCall == B("quit")

LoginCalls(c) == IF c = "merge" THEN MergeLoginCalls ELSE AutofillLoginCalls
UploadCalls(c, f) == IF c = "merge" THEN MergeUploadCalls(f) ELSE AutofillUploadCalls(f)
RisFilesOf(c, names) == IF c = "merge" THEN MergeRisFiles(names) ELSE AutofillRisFiles(names)

NoFault == [call |-> "-", file |-> 0]

\* whether the k-th call of calls is the one that raises, for file number n
RaisesAt(calls, k, n) == fault.file = n /\ calls[k].call = fault.call
RaisesIn(calls, n) == \E k \in 1..Len(calls) : RaisesAt(calls, k, n)
\* the calls made up to and including the one that raises
UpToRaise(calls, n) ==
    SubSeq(calls, 1, CHOOSE k \in 1..Len(calls) :
                        /\ RaisesAt(calls, k, n)
                        /\ \A j \in 1..(k - 1) : ~RaisesAt(calls, j, n))

Returned(v) == [kind |-> "returned", value |-> v]
Raised(where) == [kind |-> "raised", at |-> where]
Running == [kind |-> "running"]

\* the operations that run upload_ris_files_to_covidence: the direct call of
\* both copies, and Pipeline 2 of main() (Merge_ris+cov.py line 532)
UploadOps == {"upload", "p2"}

\* the function `c` has ended with `res`; in a direct call the autofill.py
\* copy runs after the Streamlit copy; in Pipeline 2 control is back in main()
UploadEnds(c, res) ==
    /\ result' = [result EXCEPT ![c] = res]
    /\ IF op = "p2"
       THEN run' = run /\ pc' = "p2_done"
       ELSE IF c = "merge"
       THEN run' = "autofill" /\ pc' = "up_start"
       ELSE run' = run /\ pc' = "up_done"
    /\ ris_files' = <<>>
    /\ fi' = 1

\* Merge_ris+cov.py lines 201-218: locate Firefox, create the driver
MergeUploadStart ==
    /\ op \in UploadOps /\ run = "merge" /\ pc = "up_start"
    /\ \/ \* lines 202-204: find_firefox_binary() is None
          /\ ui' = ui \cup {"error: Firefox binary not found"}
          /\ UploadEnds("merge", Returned(None))
          /\ UNCHANGED created
       \/ \* lines 216-218: the driver fails to initialise
          /\ ui' = ui \cup {"error: initializing Firefox WebDriver"}
          /\ UploadEnds("merge", Returned(None))
          /\ UNCHANGED created
       \/ \* line 215
          /\ created' = [created EXCEPT !["merge"] = TRUE]
          /\ pc' = "up_login"
          /\ UNCHANGED <<ui, run, result, ris_files, fi>>
    /\ UNCHANGED <<op, quits, browser, listing, fault, noNotif, folder, outsideUp>>

\* autofill.py line 16: create the driver, outside any try
AutofillUploadStart ==
    /\ op \in UploadOps /\ run = "autofill" /\ pc = "up_start"
    /\ \/ \* webdriver.Chrome(...) raises
          /\ UploadEnds("autofill", Raised("init"))
          /\ UNCHANGED created
       \/ /\ created' = [created EXCEPT !["autofill"] = TRUE]
          /\ pc' = "up_login"
          /\ UNCHANGED <<run, result, ris_files, fi>>
    /\ UNCHANGED <<op, ui, quits, browser, listing, fault, noNotif, folder, outsideUp>>

\* UploadRaises with driver.quit() on the normal path only (no finally)
UploadRaises_noFinally(c, done, where) ==
    /\ browser' = [browser EXCEPT ![c] = @ \o done]
    /\ UploadEnds(c, Raised(where))
    /\ UNCHANGED <<ui, quits>>

\* the try block is left by an exception after `done` more calls: finally quits
UploadRaises(c, done, where) ==
    /\ browser' = [browser EXCEPT ![c] = @ \o done \o <<QuitCall>>]
    /\ quits' = [quits EXCEPT ![c] = @ + 1]
    /\ UploadEnds(c, Raised(where))
    /\ UNCHANGED ui

\* lines 221-236 (Merge) / 19-43 (autofill): sign in, open the review, list the files
UploadLogin(c) ==
    /\ op \in UploadOps /\ run = c /\ pc = "up_login"
    /\ LET calls == LoginCalls(c) IN
       IF RaisesIn(calls, 0)
       THEN UploadRaises(c, UpToRaise(calls, 0), "login")
       ELSE IF fault = [call |-> "os.listdir", file |-> 0]
       THEN UploadRaises(c, calls, "listdir")
       ELSE /\ browser' = [browser EXCEPT ![c] = @ \o calls]
            /\ ris_files' = RisFilesOf(c, listing)
            /\ fi' = 1
            /\ pc' = "up_file"
            /\ UNCHANGED <<ui, run, quits, result>>
    /\ UNCHANGED <<op, created, listing, fault, noNotif, folder, outsideUp>>

\* lines 238-253 (Merge) / 45-70 (autofill): one iteration of the upload loop
UploadFile(c) ==
    /\ op \in UploadOps /\ run = c /\ pc = "up_file"
    /\ fi <= Len(ris_files)
    /\ LET ris_file == ris_files[fi]
           calls == UploadCalls(c, ris_file)
       IN  IF RaisesIn(calls, fi)
           THEN UploadRaises(c, UpToRaise(calls, fi), "upload")
           ELSE /\ browser' = [browser EXCEPT ![c] = @ \o calls \o <<NotificationCall>>]
                /\ ui' = IF c = "autofill" THEN ui
                         ELSE IF ris_file \in noNotif
                         THEN ui \cup {"success: Uploaded on Covidence"}
                         ELSE ui \cup {"write: Upload Status"}
                /\ fi' = fi + 1
                /\ UNCHANGED <<pc, run, quits, result, ris_files>>
    /\ UNCHANGED <<op, created, listing, fault, noNotif, folder, outsideUp>>

\* lines 254-256 (Merge) / 72-74 (autofill): the loop is over, finally quits
UploadFinish(c) ==
    /\ op \in UploadOps /\ run = c /\ pc = "up_file"
    /\ fi > Len(ris_files)
    /\ ui' = IF c = "merge" THEN ui \cup {"success: All RIS files have been processed"}
             ELSE ui
    /\ browser' = [browser EXCEPT ![c] = Append(@, QuitCall)]
    /\ quits' = [quits EXCEPT ![c] = @ + 1]
    /\ UploadEnds(c, Returned(None))
    /\ UNCHANGED <<op, created, listing, fault, noNotif, folder, outsideUp>>

(***************************************************************************)
(* main(), Pipeline 2                       Merge_ris+cov.py lines 516-534 *)
(***************************************************************************)
\* the browser calls that may raise during the upload of Pipeline 2
P2Faults ==
    {NoFault, [call |-> "os.listdir", file |-> 0]}
    \cup [call : {"send_keys file"}, file : 1..MaxFolder]

\* lines 516-525: the button is pressed; the inputs are validated
P2Start ==
    /\ op = "p2" /\ pc = "p2_start"
    /\ \/ \* lines 517-519
          /\ article_titles = <<>>
          /\ ui' = ui \cup {"error: Please enter at least one article title."}
          /\ pc' = "p2_done"
       \/ \* lines 520-522: a credential or the review URL is missing
          /\ article_titles /= <<>>
          /\ ui' = ui \cup {"error: Please fill in Covidence credentials and review URL."}
          /\ pc' = "p2_done"
       \/ \* lines 524-528: call download_all_ris_files
          /\ article_titles /= <<>>
          /\ pc' = "ris_start"
          /\ UNCHANGED ui
    /\ UNCHANGED <<op, risVars, outsideRis>>

\* lines 528-534: download_all_ris_files is over; upload what the folder holds
P2Upload ==
    /\ op = "p2" /\ pc = "ris_exit"
    /\ IF risResult.kind = "raised"
       THEN \* the exception of download_ris_for_article leaves main()
            /\ pc' = "p2_uncaught"
            /\ UNCHANGED <<ui, listing, fault, noNotif>>
       ELSE IF downloaded_files /= <<>>
       THEN \* lines 529-532: upload_ris_files_to_covidence(RIS_FOLDER_PATH, ..)
            /\ ui' = ui \cup {"success: RIS file download completed."}
            /\ listing' \in Orders(DOMAIN folder)
            /\ fault' \in P2Faults
            /\ noNotif' = {}        \* every import shows its notification
            /\ pc' = "up_start"
       ELSE \* lines 533-534
            /\ ui' = ui \cup {"error: No RIS files were downloaded."}
            /\ pc' = "p2_done"
            /\ UNCHANGED <<listing, fault, noNotif>>
    /\ UNCHANGED <<op, risVars, fetchVars, p1Vars, drvVars, browser, ris_files, fi,
                   exVars, raVars, bmVars, reVars, downloads>>

(***************************************************************************)
(* reconstruct_abstract, the copy of openAlex.py lines 4-22                *)
(***************************************************************************)
\* openAlex.py lines 20-21
RECURSIVE PlaceWordOpenAlex(_, _, _)
PlaceWordOpenAlex(abstract_words, word, indices) ==
    IF indices = <<>> THEN abstract_words
    ELSE PlaceWordOpenAlex([abstract_words EXCEPT ![Head(indices) + 1] = word], word,
                           Tail(indices))

\* openAlex.py lines 19-21
RECURSIVE PlaceAllOpenAlex(_, _)
PlaceAllOpenAlex(abstract_words, entries) ==
    IF entries = <<>> THEN abstract_words
    ELSE PlaceAllOpenAlex(
             PlaceWordOpenAlex(abstract_words, Head(entries)[1], Head(entries)[2]),
             Tail(entries))

reconstruct_abstract_openAlex(index) ==
    LET positions == Concat([k \in 1..Len(index) |-> index[k][2]])
    IN  IF positions = <<>> THEN <<>>
        ELSE LET n_words == MaxOf(positions) + 1
                 blank == [k \in 1..n_words |-> ""]
             IN  Join(PlaceAllOpenAlex(blank, index), " ")

AbstractCopies == {"merge", "openAlex"}

\* a direct call reconstruct_abstract(inverted_index) of one copy
Reconstruct(c) ==
    /\ op = "reconstruct"
    /\ pc = "ra_call"
    /\ IsNone(returned_abstract[c])
    /\ returned_abstract' = [returned_abstract EXCEPT ![c] =
                       Some(IF c = "merge"
                            THEN reconstruct_abstract(abstract_inverted_index)
                            ELSE reconstruct_abstract_openAlex(abstract_inverted_index))]
    /\ pc' = IF \A d \in AbstractCopies \ {c} : ~IsNone(returned_abstract[d])
             THEN "ra_done" ELSE pc
    /\ UNCHANGED <<op, ui, words, abstract_inverted_index, outsideRa>>

(***************************************************************************)
(* sanitize_filename(name)                  Merge_ris+cov.py lines 258-260 *)
(* A text is a sequence of runs: a run of characters of [\w\-\.], one      *)
(* space, or a run of other characters.                                    *)
(***************************************************************************)
Space == " "
OtherRuns == {"?", ":/"}

RECURSIVE Strip(_)
Strip(t) ==
    IF t = <<>> THEN t
    ELSE IF Head(t) = Space THEN Strip(Tail(t))
    ELSE IF t[Len(t)] = Space THEN Strip(SubSeq(t, 1, Len(t) - 1))
    ELSE t

sanitize_filename(name) ==
    LET allowed(r) == r \notin OtherRuns
        sanitized == SelectSeq(name, allowed)           \* line 259
        stripped == Strip(sanitized)                    \* line 260
    IN  [k \in 1..Len(stripped) |-> IF stripped[k] = Space THEN "_" ELSE stripped[k]]

(***************************************************************************)
(* download_pdf_from_study_element(driver, study_element, file_index)      *)
(*                                          Merge_ris+cov.py lines 280-335 *)
(***************************************************************************)
\* what the h2 title element of a study may read
RawTitles ==
    { <<>>, <<Space>>, <<"?">>, <<"Methane">>, <<"Methane", "?">>,
      <<Space, "Methane", Space, "CO2", Space>> }

\* what Covidence and the PDF host answer for one study
StudyAnswers ==
    [ inner : {"absent", "clicked", "raises"},   \* lines 282-285
      view  : {"ok", "raises"},                  \* lines 292-295
      title : {None} \cup {Some(t) : t \in RawTitles},   \* None: lookup raises
      href  : {"url", "empty", "raises"},        \* lines 314-317
      body  : {None} \cup {Some(b) : b \in Bytes} ]      \* None: download raises

DocumentTitle(file_index) == <<"document_", ToString(file_index)>>

\* the value returned, <<title, Option pdf_bytes>>, or <<"raised">>
download_pdf_from_study_element(a, file_index) ==
    IF a.inner = "raises"
    THEN \* lines 281-289 catch NoSuchElementException only
         <<"raised">>
    ELSE IF a.view = "raises"
    THEN \* lines 298-301
         <<sanitize_filename(DocumentTitle(file_index)), None>>
    ELSE LET title == IF IsNone(a.title) THEN DocumentTitle(file_index)   \* 308-310
                      ELSE IF Strip(Val(a.title)) = <<>>                  \* 305-307
                           THEN DocumentTitle(file_index)
                           ELSE Strip(Val(a.title))
             sanitized_title == sanitize_filename(title)                  \* 311
         IN  IF a.href /= "url"
             THEN <<sanitized_title, None>>                               \* 318-324
             ELSE IF IsNone(a.body)
             THEN <<sanitized_title, None>>                               \* 330-332
             ELSE <<sanitized_title, a.body>>                             \* 335

(***************************************************************************)
(* extract_and_download_pdfs_from_covidence Merge_ris+cov.py lines 337-412 *)
(***************************************************************************)
EmptyPdfs == [n \in {} |-> ""]

\* the operations that run the extraction: the direct call, and Pipeline 3 of
\* main() (line 551)
ExtractOps == {"extract", "p3"}

PageFaults == {"none", "obstructed", "stale"}

\* the function ends with `res`
ExtractEnds(res) ==
    /\ result' = [result EXCEPT !["extract"] = res]
    /\ pc' = "ex_done"

\* finally: driver.quit() (lines 410-411), then the function ends
ExtractQuits(res) ==
    /\ quits' = [quits EXCEPT !["extract"] = @ + 1]
    /\ ExtractEnds(res)

\* lines 338-359: locate Firefox, create the driver, start the collections
ExtractStart ==
    /\ op \in ExtractOps /\ pc = "ex_start"
    /\ \/ \* lines 339-341
          /\ ui' = ui \cup {"error: Firefox binary not found"}
          /\ ExtractEnds(Returned(<<EmptyPdfs, <<>>>>))
          /\ UNCHANGED created
       \/ \* lines 354-356
          /\ ui' = ui \cup {"error: initializing Firefox WebDriver"}
          /\ ExtractEnds(Returned(<<EmptyPdfs, <<>>>>))
          /\ UNCHANGED created
       \/ \* line 353
          /\ created' = [created EXCEPT !["extract"] = TRUE]
          /\ pc' = "ex_login"
          /\ UNCHANGED <<ui, result>>
    /\ UNCHANGED <<op, run, quits, exVars, outsideEx>>

\* lines 361-381: sign in, open the review, follow the 'extracted' link
ExtractLogin ==
    /\ op \in ExtractOps /\ pc = "ex_login"
    /\ exActed' = TRUE
    /\ \/ \* a call of lines 361-372 raises
          /\ ExtractQuits(Raised("login"))
          /\ UNCHANGED <<ui, page>>
       \/ \* lines 378-380: the link is missing or its click raises
          /\ ui' = ui \cup {"error: clicking on the extracted studies link"}
          /\ ExtractQuits(Returned(<<downloaded_pdfs, failed_papers>>))
          /\ UNCHANGED page
       \/ \* lines 375-377
          /\ ui' = ui \cup {"info: Navigated to extracted studies."}
          /\ page' \in [batches : 0..MaxBatches, fault : PageFaults]
          /\ pc' = "lm_find"
          /\ UNCHANGED <<quits, result>>
    /\ UNCHANGED <<op, run, created, n_studies, si, downloaded_pdfs, failed_papers,
                   outsideEx>>

\* line 385: look for the global 'Load more' button
LoadMoreFind ==
    /\ op \in ExtractOps /\ pc = "lm_find"
    /\ IF page.fault = "stale"
       THEN \* an exception other than NoSuchElementException: line 394
            pc' = "lm_warn" /\ UNCHANGED ui
       ELSE IF page.batches = 0
       THEN \* lines 391-393: break
            /\ ui' = ui \cup {"info: No more global 'Load more' button found."}
            /\ pc' = "ex_collect"
       ELSE pc' = "lm_click" /\ UNCHANGED ui
    /\ UNCHANGED <<op, drvVars, exVars, outsideEx>>

\* lines 386-390: scroll to the button and click it
LoadMoreClick ==
    /\ op \in ExtractOps /\ pc = "lm_click"
    /\ IF page.fault = "obstructed"
       THEN \* the click raises (e.g. ElementClickInterceptedException): line 394
            pc' = "lm_warn" /\ UNCHANGED <<ui, page>>
       ELSE /\ page' = [page EXCEPT !.batches = @ - 1]
            /\ ui' = ui \cup {"write: Clicked global 'Load more'"}
            /\ pc' = "lm_find"
    /\ UNCHANGED <<op, drvVars, exActed, n_studies, si, downloaded_pdfs, failed_papers,
                   outsideEx>>

\* lines 394-396: warn, sleep, and go round the `while True` again
LoadMoreWarn ==
    /\ op \in ExtractOps /\ pc = "lm_warn"
    /\ ui' = ui \cup {"warning: Error clicking global 'Load more'"}
    /\ pc' = "lm_find"
    /\ UNCHANGED <<op, drvVars, exVars, outsideEx>>

\* lines 398-401: collect the study elements
ExtractCollect ==
    /\ op \in ExtractOps /\ pc = "ex_collect"
    /\ \/ \* find_elements raises
          /\ ExtractQuits(Raised("collect"))
          /\ UNCHANGED <<ui, n_studies, si>>
       \/ \E n \in 0..MaxStudies :
            IF n = 0
            THEN \* lines 399-401
                 /\ ui' = ui \cup {"error: No study elements found."}
                 /\ ExtractQuits(Returned(<<downloaded_pdfs, failed_papers>>))
                 /\ UNCHANGED <<n_studies, si>>
            ELSE /\ n_studies' = n
                 /\ si' = 1
                 /\ pc' = "ex_study"
                 /\ UNCHANGED <<ui, quits, result>>
    /\ UNCHANGED <<op, run, created, exActed, page, downloaded_pdfs, failed_papers,
                   outsideEx>>

\* lines 403-409: one iteration of the loop over the study elements
ExtractStudy ==
    /\ op \in ExtractOps /\ pc = "ex_study"
    /\ si <= n_studies
    /\ \E a \in StudyAnswers :
         LET ret == download_pdf_from_study_element(a, si) IN
         IF ret = <<"raised">>
         THEN \* the exception leaves the loop and the function: finally quits
              /\ ExtractQuits(Raised("study"))
              /\ UNCHANGED <<si, downloaded_pdfs, failed_papers>>
         ELSE LET name == ret[1] \o <<".pdf">>
                  pdf_bytes == ret[2]
              IN  /\ IF ~IsNone(pdf_bytes) /\ Truthy(Val(pdf_bytes))
                     THEN /\ downloaded_pdfs' =
                                 [n \in DOMAIN downloaded_pdfs \cup {name} |->
                                     IF n = name THEN Val(pdf_bytes)
                                     ELSE downloaded_pdfs[n]]
                          /\ UNCHANGED failed_papers
                     ELSE /\ failed_papers' = Append(failed_papers, name)
                          /\ UNCHANGED downloaded_pdfs
                  /\ si' = si + 1
                  /\ UNCHANGED <<pc, quits, result>>
    /\ UNCHANGED <<op, ui, run, created, exActed, page, n_studies, outsideEx>>

\* lines 410-412: the loop is over; finally quits; return
ExtractFinish ==
    /\ op \in ExtractOps /\ pc = "ex_study"
    /\ si > n_studies
    /\ ExtractQuits(Returned(<<downloaded_pdfs, failed_papers>>))
    /\ UNCHANGED <<op, ui, run, created, exVars, outsideEx>>

(***************************************************************************)
(* main(), Pipeline 3                       Merge_ris+cov.py lines 545-575 *)
(***************************************************************************)
\* csv.writer: every row is its fields joined by "," and ended by "\r\n"; a
\* field of word characters, '-', '.', '_' and spaces is written unquoted.
\* The rows written here have one field.
CsvText(rows) == Concat([k \in 1..Len(rows) |-> rows[k] \o <<"\r\n">>])

\* trigger_download(data, filename, mime_type), lines 262-278
Download(data, filename, mime_type) ==
    [filename |-> filename, mime |-> mime_type, data |-> data]

\* lines 545-551: the button is pressed; the inputs are validated
P3Start ==
    /\ op = "p3" /\ pc = "p3_start"
    /\ \/ \* lines 546-548: a credential or the review URL is missing
          /\ ui' = ui \cup {"error: Please fill in Covidence credentials and review URL."}
          /\ pc' = "p3_done"
       \/ \* lines 550-551: call extract_and_download_pdfs_from_covidence
          /\ ui' = ui \cup {"info: Starting PDF extraction from Covidence..."}
          /\ pc' = "ex_start"
    /\ UNCHANGED <<op, downloads, drvVars, exVars, outsideP3>>

\* lines 551-575: the extraction is over; trigger the ZIP and the CSV download
P3Outputs ==
    /\ op = "p3" /\ pc = "ex_done"
    /\ IF result["extract"].kind = "raised"
       THEN \* the exception leaves main(): lines 553-575 are not reached
            /\ pc' = "p3_uncaught"
            /\ UNCHANGED <<ui, downloads>>
       ELSE LET pdfs == result["extract"].value[1]
                failed == result["extract"].value[2]
                zip == IF DOMAIN pdfs /= {}                        \* lines 553-564
                       THEN <<Download(pdfs, "downloaded_pdfs.zip", "application/zip")>>
                       ELSE <<>>
                rows == << <<"Paper Title">> >> \o failed          \* lines 571-573
                csv == IF failed /= <<>>                           \* lines 568-575
                       THEN <<Download(CsvText(rows), "failed_papers.csv", "text/csv")>>
                       ELSE <<>>
            IN  /\ downloads' = zip \o csv
                /\ ui' = ui
                         \cup (IF DOMAIN pdfs /= {}
                               THEN {"success: PDF extraction completed."}
                               ELSE {"warning: No PDFs were successfully downloaded."})
                         \cup (IF failed /= <<>>
                               THEN {"info: Triggering automatic CSV download"}
                               ELSE {})
                /\ pc' = "p3_done"
    /\ UNCHANGED <<op, drvVars, exVars, outsideP3>>

(***************************************************************************)
(* The specification.                                                      *)
(***************************************************************************)
vars == <<op, pc, ui, fetchVars, p1Vars, risVars, drvVars, upVars, exVars, raVars,
          bmVars, reVars, downloads>>

Ops ==
    {"scihub", "best_match", "p1_title", "p1_doi", "ris", "upload", "p2", "extract",
     "p3", "reconstruct", "ris_entry"}

InitFetch ==
    /\ scihubBound \in BOOLEAN
    /\ mi = 1
    /\ last_exc = None
    /\ attempts = <<>>
    /\ fetchResult = [kind |-> "running"]
    /\ IF op = "scihub"
       THEN doi \in DOIs /\ mirrors \in MirrorLists
       ELSE doi = "" /\ mirrors = <<>>

InitP1 ==
    /\ itm = None
    /\ score = 0
    /\ linkIdx = 1
    /\ requested = <<>>
    /\ publisherPdf = None
    /\ pdf = None
    /\ offered = None

\* files a previous run may have left in the output folder
StaleFolders ==
    { EmptyFolder,
      [n \in {RisName(1), RisName(7)} |-> <<"stale">>] }

InitRis ==
    /\ ti = 1
    /\ downloaded_files = <<>>
    /\ processed = <<>>
    /\ risResult = [kind |-> "running"]
    /\ IF op \in {"ris", "p2"}
       THEN /\ article_titles \in SeqsUpTo(Titles, MaxTitles)
            /\ folder \in StaleFolders
       ELSE /\ article_titles = <<>>
            /\ op /= "upload" => folder = EmptyFolder

\* names a folder handed to the upload may hold
FolderNames ==
    { RisName(1), <<"2", ".", "R", "I", "S">>, <<"3", ".", "t", "x", "t">> }

Runs == {"merge", "autofill", "extract"}
UploadCopies == {"merge", "autofill"}

\* the calls the two copies make, by name
UploadCallNames ==
    {MergeUploadCalls(<<>>)[k].call : k \in 1..Len(MergeUploadCalls(<<>>))}
    \cup {AutofillUploadCalls(<<>>)[k].call : k \in 1..Len(AutofillUploadCalls(<<>>))}
LoginCallNames ==
    {MergeLoginCalls[k].call : k \in 1..Len(MergeLoginCalls)}
    \cup {AutofillLoginCalls[k].call : k \in 1..Len(AutofillLoginCalls)}

Faults ==
    {NoFault}
    \cup [call : LoginCallNames \cup {"os.listdir"}, file : {0}]
    \cup [call : UploadCallNames, file : 1..MaxFolder]

InitDrv ==
    /\ created = [r \in Runs |-> FALSE]
    /\ quits = [r \in Runs |-> 0]
    /\ result = [r \in Runs |-> Running]
    /\ run = IF op \in ExtractOps THEN "extract" ELSE "merge"

InitUpload ==
    /\ browser = [c \in UploadCopies |-> <<>>]
    /\ ris_files = <<>>
    /\ fi = 1
    /\ IF op = "upload"
       THEN /\ \E names \in {S \in SUBSET FolderNames : Cardinality(S) <= MaxFolder} :
                 /\ folder = [n \in names |-> <<"TY  - ", "JOUR">>]
                 /\ listing \in Orders(names)
            /\ fault \in Faults
            /\ noNotif \in SUBSET {listing[k] : k \in 1..Len(listing)}
       ELSE /\ listing = <<>>
            /\ fault = NoFault
            /\ noNotif = {}

InitExtract ==
    /\ downloads = <<>>
    /\ exActed = FALSE
    /\ page = [batches |-> 0, fault |-> "none"]
    /\ n_studies = 0
    /\ si = 1
    /\ downloaded_pdfs = EmptyPdfs
    /\ failed_papers = <<>>

Vocabulary == {"methane", "gas"}

\* the inverted indexes of ws: one entry per distinct word, holding exactly the
\* (0-based) positions at which it occurs; entries and positions in any order
IndexesOf(ws) ==
    LET distinct == {ws[k] : k \in 1..Len(ws)}
        occ(w) == {k - 1 : k \in {j \in 1..Len(ws) : ws[j] = w}}
    IN  {ix \in UNION {[1..Len(o) -> UNION {{<<w, ps>> : ps \in Orders(occ(w))}
                                             : w \in distinct}]
                       : o \in Orders(distinct)} :
            \E o \in Orders(distinct) : \A k \in 1..Len(o) : ix[k][1] = o[k]}

\* indexes that hold no position at all
EmptyIndexes == {<<>>, << <<"gas", <<>> >> >>, << <<"gas", <<>> >>, <<"methane", <<>> >> >>}

InitReconstruct ==
    /\ returned_abstract = [c \in AbstractCopies |-> None]
    /\ IF op = "reconstruct"
       THEN /\ words \in SeqsUpTo(Vocabulary, MaxWords)
            /\ abstract_inverted_index \in IndexesOf(words) \cup
                                     (IF words = <<>> THEN EmptyIndexes ELSE {})
       ELSE /\ words = <<>>
            /\ abstract_inverted_index = <<>>

InitBestMatch ==
    /\ returned_match = None
    /\ IF op = "best_match"
       THEN crossref_items \in SeqsUpTo(Items, MaxItems)
       ELSE crossref_items = <<>>

InitEntry ==
    /\ returned_entry = [c \in EntryCopies |-> None]
    /\ IF op = "ris_entry"
       THEN entry_args \in EntryArgs
       ELSE entry_args = [title |-> <<>>, authors |-> <<>>, year |-> None,
                          doi |-> None, abstract |-> <<>>]

Init ==
    /\ op \in Ops
    /\ pc = CASE op = "scihub" -> "fetch"
              [] op = "best_match" -> "bm_call"
              [] op \in {"p1_title", "p1_doi"} -> "p1_start"
              [] op = "ris" -> "ris_start"
              [] op = "upload" -> "up_start"
              [] op = "p2" -> "p2_start"
              [] op = "extract" -> "ex_start"
              [] op = "p3" -> "p3_start"
              [] op = "reconstruct" -> "ra_call"
              [] op = "ris_entry" -> "re_call"
    /\ ui = {}
    /\ InitFetch
    /\ InitP1
    /\ InitBestMatch
    /\ InitDrv
    /\ InitUpload
    /\ InitRis
    /\ InitExtract
    /\ InitReconstruct
    /\ InitEntry

Next ==
    \/ MirrorAttempt
    \/ AllMirrorsFailed
    \/ BestMatchCall
    \/ P1TitleSearch
    \/ P1DoiLookup
    \/ P1PublisherLink
    \/ P1MirrorCallSite
    \/ P1Offer
    \/ RisStart
    \/ RisArticle
    \/ RisFinish
    \/ MergeUploadStart
    \/ AutofillUploadStart
    \/ \E c \in UploadCopies : UploadLogin(c)
    \/ \E c \in UploadCopies : UploadFile(c)
    \/ \E c \in UploadCopies : UploadFinish(c)
    \/ P2Start
    \/ P2Upload
    \/ ExtractStart
    \/ ExtractLogin
    \/ LoadMoreFind
    \/ LoadMoreClick
    \/ LoadMoreWarn
    \/ ExtractCollect
    \/ ExtractStudy
    \/ ExtractFinish
    \/ P3Start
    \/ P3Outputs
    \/ \E c \in AbstractCopies : Reconstruct(c)
    \/ \E c \in EntryCopies : CreateEntry(c)

Spec == Init /\ [][Next]_vars

\* The program is one thread that keeps running: a step that can be taken is taken.
FairSpec == Spec /\ WF_vars(Next)

(***************************************************************************)
(* Properties.                                                             *)
(***************************************************************************)
Last(q) == q[Len(q)]

\* C1: fetch_via_scihub tries the mirrors in list order, each list position at
\* most once; it returns the bytes of the first mirror that succeeds and tries
\* none after it; when every mirror fails (or the list is empty) it raises a
\* RuntimeError carrying the error of the last mirror tried and returns nothing.
C1_MirrorsTriedInOrder ==
    /\ Len(attempts) <= Len(mirrors)
    /\ \A k \in 1..Len(attempts) : attempts[k].mirror = mirrors[k]
    /\ \A k \in 1..(Len(attempts) - 1) : ~attempts[k].out.ok
    /\ fetchResult.kind = "returned" =>
          /\ attempts /= <<>>
          /\ Last(attempts).out.ok
          /\ fetchResult.mirror = mirrors[Len(attempts)]
          /\ fetchResult.bytes = Last(attempts).out.bytes
    /\ fetchResult.kind = "raised" =>
          /\ fetchResult.type = "RuntimeError"
          /\ Len(attempts) = Len(mirrors)
          /\ \A k \in 1..Len(attempts) : ~attempts[k].out.ok
          /\ fetchResult.last =
                 IF mirrors = <<>> THEN None
                 ELSE Some([type |-> Last(attempts).out.exc, mirror |-> Last(mirrors)])
    /\ (pc = "fetch_exit" /\ \A k \in 1..Len(attempts) : ~attempts[k].out.ok)
          => fetchResult.kind = "raised"

\* a direct call returned the bytes of its third mirror, two mirrors failed
\* before it with different errors and one mirror was never tried
C1_Witness ==
    /\ op = "scihub"
    /\ fetchResult.kind = "returned"
    /\ Len(attempts) = 3
    /\ Len(mirrors) = 4
    /\ attempts[1].out.exc /= attempts[2].out.exc

\* C2: when the index maps each distinct word to exactly its positions, both
\* copies of reconstruct_abstract return the words joined by single spaces in
\* their original order; an index without positions gives the empty string.
C2_ReconstructRoundTrip ==
    op = "reconstruct" =>
        \A c \in AbstractCopies :
            ~IsNone(returned_abstract[c]) =>
                /\ Val(returned_abstract[c]) = Join(words, " ")
                /\ (\A k \in 1..Len(abstract_inverted_index) :
                        abstract_inverted_index[k][2] = <<>>)
                      => Val(returned_abstract[c]) = <<>>

\* both copies have rebuilt a three-word abstract with a repeated word from an
\* index whose entries are not in order of first occurrence
C2_Witness ==
    /\ op = "reconstruct"
    /\ pc = "ra_done"
    /\ Len(words) = 3
    /\ words[1] = words[3] /\ words[1] /= words[2]
    /\ abstract_inverted_index[1][1] = words[2]
    /\ returned_abstract["merge"] = returned_abstract["openAlex"]

P1Ops == {"p1_title", "p1_doi"}

\* C3: in Pipeline 1 a failure of the Crossref lookup, of the publisher PDF
\* request or of the mirror fetch never leaves main() as an uncaught exception,
\* and a failed mirror fetch ends in a reported error with no PDF offered.
C3_Pipeline1ErrorsCaught ==
    op \in P1Ops =>
        /\ pc /= "uncaught"
        /\ (pc = "p1_done" /\ fetchResult.kind = "raised") =>
              /\ IsNone(offered)
              /\ ui \cap {"error: Crawling failed", "error: Searching failed"} /= {}

\* the acquisition of a resolved item is over (normally or by an exception)
AcquisitionOver ==
    /\ op \in P1Ops /\ ~IsNone(itm) /\ score >= SIM_THRESHOLD
    /\ pc \in {"p1_done", "uncaught"}

\* C4: publisher links are requested first, in item order, and the first that
\* answers OK with a PDF content type wins; the mirror fallback is invoked if
\* and only if no publisher link produced a PDF; "Save PDF" is offered if and
\* only if one of the two sources produced non-empty bytes.
C4_AcquisitionOrder ==
    op \in P1Ops =>
        /\ \A j, k \in 1..Len(requested) : j < k => requested[j] < requested[k]
        /\ fetchResult.kind /= "running" => IsNone(publisherPdf)
        /\ AcquisitionOver =>
              /\ (fetchResult.kind /= "running") <=> IsNone(publisherPdf)
              /\ ~IsNone(offered) <=>
                    \/ ~IsNone(publisherPdf) /\ Truthy(Val(publisherPdf))
                    \/ fetchResult.kind = "returned" /\ Truthy(fetchResult.bytes)

\* C5: download_all_ris_files processes every title exactly once in input
\* order whatever fails, and returns exactly the files of the titles that
\* succeeded, in input order, the file of the i-th title being '<i>.ris'.
C5_EveryTitleProcessed ==
    (op = "ris" /\ pc = "ris_exit") =>
        /\ Len(processed) = Len(article_titles)
        /\ \A k \in 1..Len(processed) :
              processed[k].index = k /\ processed[k].title = article_titles[k]
        /\ risResult.kind = "returned"
        /\ risResult.value =
              LET ok(call) == call.outcome = "written"
                  done == SelectSeq(processed, ok)
              IN  [k \in 1..Len(done) |-> RisName(done[k].index)]

\* C6: download_ris_for_article returns a path only for a file that exists and
\* is non-empty, and returns None instead of raising on every failure; so
\* every path download_all_ris_files returns names an existing non-empty file.
C6_NoneInsteadOfRaising ==
    op = "ris" =>
        /\ \A k \in 1..Len(processed) :
              /\ processed[k].outcome /= "raised"
              /\ ~IsNone(processed[k].ret) =>
                    ExistsNonEmpty(folder, Val(processed[k].ret))
              /\ processed[k].outcome /= "written" => IsNone(processed[k].ret)
        /\ risResult.kind /= "raised"
        /\ risResult.kind = "returned" =>
              \A k \in 1..Len(risResult.value) :
                  ExistsNonEmpty(folder, risResult.value[k])

\* C7: download_pdf_from_study_element never raises for a failure inside one
\* study, so every listed study is processed and the PDFs collected from
\* earlier studies are returned to the caller.
C7_FailingStudySkipped ==
    op = "extract" =>
        /\ result["extract"] /= Raised("study")
        /\ (pc = "ex_done" /\ n_studies > 0) =>
              /\ si = n_studies + 1
              /\ result["extract"] = Returned(<<downloaded_pdfs, failed_papers>>)

\* the positions of the calls named `call` in a browser trace
At(t, call) == {k \in 1..Len(t) : t[k].call = call}

\* the files submitted through the import form, in order: for every click on
\* 'upload-citations', the file last put into the file field before it
Submitted(t) ==
    LET clicks == At(t, "click upload-citations")
        fileAt(k) == t[CHOOSE j \in At(t, "send_keys file") :
                          j < k /\ \A i \in At(t, "send_keys file") : i < k => i <= j].arg
        nth(n) == CHOOSE k \in clicks : Cardinality({j \in clicks : j < k}) = n - 1
    IN  [n \in 1..Cardinality(clicks) |-> fileAt(nth(n))]

\* a name ends in ".ris" in some mix of upper and lower case
IsRisName(f) ==
    /\ Len(f) >= 4
    /\ f[Len(f) - 3] = "."
    /\ f[Len(f) - 2] \in {"r", "R"}
    /\ f[Len(f) - 1] \in {"i", "I"}
    /\ f[Len(f)] \in {"s", "S"}

IsPrefix(p, q) == Len(p) <= Len(q) /\ p = SubSeq(q, 1, Len(p))

\* C8: after exactly one login, every file of the folder whose name ends in
\* '.ris' (in any case) is submitted through the import form exactly once, each
\* submission after a fresh navigation to the import page; a missing
\* notification element does not stop the uploads; both copies make the same
\* sequence of browser calls.
C8_UploadsEveryRisFile ==
    op = "upload" =>
        LET expected == SelectSeq(listing, IsRisName) IN
        /\ \A c \in UploadCopies :
              LET t == browser[c] IN
              /\ Cardinality(At(t, "click sign_in submit")) <= 1
              /\ At(t, "send_keys file") /= {} =>
                    \E l \in At(t, "click sign_in submit") :
                        \A k \in At(t, "send_keys file") : l < k
              /\ \A k \in At(t, "click upload-citations") :
                    \E n \in At(t, "get citation_imports/new") :
                        /\ n < k
                        /\ \A j \in At(t, "click upload-citations") : ~(n < j /\ j < k)
                        /\ \E f \in At(t, "send_keys file") : n < f /\ f < k
              /\ IsPrefix(Submitted(t), expected)
              /\ result[c] = Returned(None) /\ created[c] =>
                    /\ Submitted(t) = expected
                    /\ Cardinality(At(t, "click sign_in submit")) = 1
              /\ (created[c] /\ result[c].kind = "raised") => fault /= NoFault
        /\ (created["merge"] /\ created["autofill"] /\ pc = "up_done") =>
              browser["merge"] = browser["autofill"]

\* both copies have uploaded two files, listed out of numeric order, one named
\* in upper case, and no notification showed after the first
C8_Witness ==
    /\ op = "upload"
    /\ pc = "up_done"
    /\ listing = << <<"2", ".", "R", "I", "S">>, RisName(1) >>
    /\ noNotif = { <<"2", ".", "R", "I", "S">> }
    /\ \A c \in UploadCopies :
          created[c] /\ result[c] = Returned(None) /\ Submitted(browser[c]) = listing

\* what holds of every browser function: the driver, once created, is quit
\* exactly once on every exit and not before; without a driver nothing is
\* done in the browser
DriverLifetime(r) ==
    /\ created[r] => quits[r] = (IF result[r].kind = "running" THEN 0 ELSE 1)
    /\ ~created[r] => quits[r] = 0
    /\ r \in UploadCopies =>
          /\ Cardinality(At(browser[r], "quit")) = quits[r]
          /\ quits[r] = 1 => Last(browser[r]) = QuitCall
          /\ ~created[r] => browser[r] = <<>>
    /\ r = "extract" => (~created[r] => ~exActed)

\* the function has ended without ever having a driver
EndedWithoutDriver(r) == ~created[r] /\ result[r].kind /= "running"

C10_LoadMoreTerminates ==
    [](pc = "lm_find" => <>(pc \notin {"lm_find", "lm_click", "lm_warn"}))

\* the file names recorded in failed_papers
FailedNames == {failed_papers[k] : k \in 1..Len(failed_papers)}

\* C11: while and after the extraction loops over the study elements, the
\* studies processed so far are partitioned by the two results: the entries of
\* downloaded_pdfs and of failed_papers together number the studies processed,
\* and no file name occurs in both.
C11_ResultsPartitionStudies ==
    (op = "extract" /\ pc = "ex_study") =>
        /\ Cardinality(DOMAIN downloaded_pdfs) + Len(failed_papers) = si - 1
        /\ DOMAIN downloaded_pdfs \cap FailedNames = {}

\* the elements of a list
Range(q) == {q[k] : k \in 1..Len(q)}

\* C12: in Pipeline 2 only files that download_all_ris_files reported as
\* downloaded in this run are submitted to Covidence (none of an earlier run,
\* none for which download_ris_for_article returned None), and once the upload
\* has run to its end the files submitted are exactly the files reported.
C12_UploadsWhatWasDownloaded ==
    op = "p2" =>
        LET submitted == Range(Submitted(browser["merge"])) IN
        /\ submitted \subseteq Range(downloaded_files)
        /\ (pc = "p2_done" /\ created["merge"] /\ result["merge"] = Returned(None)) =>
              submitted = Range(downloaded_files)

\* the fetches of Pipeline 1: a publisher link requested, or a mirror tried
NoFetchMade == requested = <<>> /\ attempts = <<>> /\ IsNone(offered)

\* C13: best_match returns an item of maximal score, the earliest one on ties,
\* and (None, 0) when the list is empty or every score is 0; in title mode a
\* PDF fetch is made only when the best score is at least SIM_THRESHOLD,
\* otherwise only the warning is shown.
C13_BestMatchAndThreshold ==
    /\ (op = "best_match" /\ pc = "bm_done") =>
          LET n == Len(crossref_items)
              bm == Val(returned_match)
              sims == {crossref_items[k].sim : k \in 1..n}
              top == CHOOSE t \in sims : \A k \in 1..n : crossref_items[k].sim <= t
              first == CHOOSE k \in 1..n :
                          /\ crossref_items[k].sim = top
                          /\ \A j \in 1..(k - 1) : crossref_items[j].sim < top
          IN  IF n = 0 \/ sims = {0}
              THEN bm = <<None, 0>>
              ELSE bm = <<Some(crossref_items[first]), top>>
    /\ op = "p1_title" =>
          LET warned == "warning: Best match similarity too low" \in ui IN
          /\ warned => score < SIM_THRESHOLD /\ pc = "p1_done" /\ NoFetchMade
          /\ (~IsNone(itm) /\ score < SIM_THRESHOLD) => warned
          /\ ~IsNone(itm) => score = Val(itm).sim
          /\ ~NoFetchMade => ~IsNone(itm) /\ score >= SIM_THRESHOLD /\ ~warned

\* a direct call with two items that tie at the top score returned the first
C13_Witness ==
    /\ op = "best_match" /\ pc = "bm_done"
    /\ crossref_items = << [DOI |-> "10.1/b", sim |-> SIM_THRESHOLD],
                           [DOI |-> "10.1/a", sim |-> SIM_THRESHOLD] >>
    /\ returned_match = Some(<<Some([DOI |-> "10.1/b", sim |-> SIM_THRESHOLD]),
                               SIM_THRESHOLD>>)

\* str.split("\n"): the lines of a text
RECURSIVE SplitLines(_)
SplitLines(text) ==
    IF \A k \in 1..Len(text) : text[k] /= "\n" THEN <<text>>
    ELSE LET k == CHOOSE i \in 1..Len(text) :
                     text[i] = "\n" /\ \A j \in 1..(i - 1) : text[j] /= "\n"
         IN  <<SubSeq(text, 1, k - 1)>> \o SplitLines(SubSeq(text, k + 1, Len(text)))

\* C14: the record create_ris_entry returns has the lines TY, TI, one AU per
\* author in order, then PY, DO, AB (each iff its value is truthy) and ER, that
\* is 3 + |authors| + (number of truthy values) lines, for every input; both
\* copies return the same string.
C14_RisRecordWellFormed ==
    (op = "ris_entry" /\ pc = "re_done") =>
        LET a == entry_args
            record == Val(returned_entry["merge"])
            lines == SplitLines(record)
            n == Len(a.authors)
            opt == (IF ~IsNone(a.year) THEN << <<"PY  - ", ToString(Val(a.year))>> >>
                    ELSE <<>>)
                   \o (IF ~IsNone(a.doi) THEN << <<"DO  - ">> \o Val(a.doi) >> ELSE <<>>)
                   \o (IF a.abstract /= <<>> THEN << <<"AB  - ">> \o a.abstract >>
                       ELSE <<>>)
        IN  /\ Len(lines) = 3 + n + Len(opt)
            /\ lines[1] = <<"TY  - JOUR">>
            /\ lines[2] = <<"TI  - ">> \o a.title
            /\ \A k \in 1..n : lines[2 + k] = <<"AU  - ">> \o a.authors[k]
            /\ SubSeq(lines, 3 + n, 2 + n + Len(opt)) = opt
            /\ lines[Len(lines)] = <<"ER  -">>
            /\ Val(returned_entry["openAlex"]) = record

\* the downloads triggered under a file name
Triggered(filename) == {k \in 1..Len(downloads) : downloads[k].filename = filename}

\* the rows of a CSV text whose fields are unquoted: split at every "\r\n"
RECURSIVE CsvRows(_)
CsvRows(text) ==
    IF text = <<>> THEN <<>>
    ELSE LET k == CHOOSE i \in 1..Len(text) :
                     text[i] = "\r\n" /\ \A j \in 1..(i - 1) : text[j] /= "\r\n"
         IN  <<SubSeq(text, 1, k - 1)>> \o CsvRows(SubSeq(text, k + 1, Len(text)))

\* C15: once the extraction run of Pipeline 3 is over, the ZIP download has
\* been triggered iff at least one PDF was downloaded, with one entry per key
\* of downloaded_pdfs; the CSV download has been triggered iff failed_papers is
\* non-empty, with the header row and then one row per failed paper in
\* processing order; both are triggered when there are PDFs and failures.
C15_Pipeline3Outputs ==
    (op = "p3" /\ pc \in {"p3_done", "p3_uncaught"}) =>
        LET zips == Triggered("downloaded_pdfs.zip")
            csvs == Triggered("failed_papers.csv")
        IN  /\ Cardinality(zips) = (IF DOMAIN downloaded_pdfs /= {} THEN 1 ELSE 0)
            /\ \A k \in zips :
                  /\ downloads[k].mime = "application/zip"
                  /\ downloads[k].data = downloaded_pdfs
            /\ Cardinality(csvs) = (IF failed_papers /= <<>> THEN 1 ELSE 0)
            /\ \A k \in csvs :
                  /\ downloads[k].mime = "text/csv"
                  /\ CsvRows(downloads[k].data) = << <<"Paper Title">> >> \o failed_papers
            /\ Len(downloads) = Cardinality(zips) + Cardinality(csvs)

====
